---------------------------- MODULE Spec2Model ----------------------------
(***************************************************************************)
(* Classification of one glider terminal log (an Iridium call) as          *)
(* intentionally disconnected or dropped: log_disconnect_info and          *)
(* _determine_xfer_drops of iridium_disconnect_analysis.py, with the       *)
(* regular expressions of log_regexes.py.                                  *)
(*                                                                         *)
(* A log text is a sequence of tokens.  Every token stands for one         *)
(* stretch of characters of the file: the newline character, one           *)
(* occurrence of the text a regular expression looks for, or other text.   *)
(* No token contains a newline, and no regular expression of the program   *)
(* matches across two tokens except where a pattern ends in "\n" or        *)
(* starts with "[^_]": those are matched with the neighbouring tokens.     *)
(*                                                                         *)
(* Four specifications share the variables: Spec (one log), SpecSummary    *)
(* (logcall_summary on a dataframe), SpecBatch (analyze_logfiles and       *)
(* logsdir_iridium_analysis on a logs directory) and SpecRun (the runs of  *)
(* full_run_ooice_log_call_analysis of ooice_iridium_analysis.py over the  *)
(* deployments).                                                           *)
(***************************************************************************)
EXTENDS Integers, Sequences, FiniteSets, TLC

VARIABLES
    filetext,   \* the characters `fid.read()` gives for the log file
    pc,         \* where the call is: "ready", "returned", "raised", "loop", ...
    locals,     \* log_disconnect_info's local variables when it reaches line 167
    result,     \* the value the call returned, or the exception it raised
    logsdir,    \* the log files of the deployment's logs directory
    logfiles,   \* the paths given to analyze_logfiles, in their order
    logcall_dataframe,  \* the dataframe of analyze_logfiles, given to logcall_summary
    dataroot,   \* the deployments found under dataroot: their logs and end dates
    proj_root,  \* the files written under proj_root, completed.json among them
    logger,     \* the messages full_run_ooice_log_call_analysis logs in a run
    now         \* the clock, in days: what dt.now() and dt.utcnow() give

vars == <<filetext, pc, locals, result, logsdir, logfiles, logcall_dataframe,
          dataroot, proj_root, logger, now>>

\* the variables of a run over the deployments
run_vars == <<dataroot, proj_root, logger, now>>

-----------------------------------------------------------------------------
(* Bounds of the model *)

\* longest log text, in tokens
MaxLen == 5

-----------------------------------------------------------------------------
(* Tokens *)

\* the line feed character
NL == "\n"
\* text no regular expression of the program matches
TEXT == "text"
\* an occurrence of gdos_reg, e.g. "GliderDos N -1 >"
GDOS == "GliderDos N -1 >"
\* an occurrence of mi_start_regex (mistart1 | mistart2)
MISTART == "Starting Mission: a.mi"
\* an occurrence of "\^C|Mission completed ABNORMALLY"
CANCEL == "^C"
\* an intentional-disconnect phrase that matches on its own: callback1,
\* housekeeping, ctrlr2, ctrlr3, freewave_xfer, exitdevices
PHRASE == "Exiting all devices"
\* the text of callback3 or exitreset without the "\n" that ends the pattern
CMD == "exit reset"
\* the text of callback2 or usecmd without the leading "[^_]" character and
\* without the "\n" that ends the pattern
PCMD == "callback 2"
\* an occurrence of xfer_reg
XFER == "Total Bytes sent/received:"
\* the file extensions a transfer-type marker is given in the model
Extensions == {"sbd", "scd", "tbd", "tcd", "mbd"}
\* an occurrence of xfer_type_reg whose group 1 is the extension
ZMODEM == [sbd |-> "zModem 1.sbd", scd |-> "zModem 1.scd", tbd |-> "zModem 1.tbd",
           tcd |-> "zModem 1.tcd", mbd |-> "zModem 1.mbd"]
Markers == {ZMODEM[e] : e \in Extensions}
\* group(1) of a transfer-type marker
group1(tok) == CHOOSE e \in Extensions : ZMODEM[e] = tok

\* the tokens of logs about the disconnect reason
DisconnectTokens == {NL, GDOS, MISTART, CANCEL, PHRASE, CMD, PCMD, XFER, ZMODEM["sbd"]}
\* the tokens of logs about the data transfer
TransferTokens == {NL, TEXT, XFER} \cup Markers

SeqsUpTo(S, n) == UNION {[1..k -> S] : k \in 0..n}
\* the log texts of the model
LogTexts == SeqsUpTo(DisconnectTokens, MaxLen) \cup SeqsUpTo(TransferTokens, MaxLen)

-----------------------------------------------------------------------------
(* Strings and lists *)

\* str.split('\n'): the stretches of text between the newline characters
RECURSIVE split(_)
split(text) ==
    IF \A i \in 1..Len(text) : text[i] # NL
    THEN <<text>>
    ELSE LET i == CHOOSE k \in 1..Len(text) :
                      text[k] = NL /\ \A j \in 1..(k - 1) : text[j] # NL
         IN  <<SubSeq(text, 1, i - 1)>> \o split(SubSeq(text, i + 1, Len(text)))

\* list.reverse()
reverse(lines) == [i \in 1..Len(lines) |-> lines[Len(lines) + 1 - i]]

\* "\n".join(lines)
RECURSIVE join(_)
join(lines) ==
    IF Len(lines) = 0 THEN <<>>
    ELSE IF Len(lines) = 1 THEN lines[1]
    ELSE lines[1] \o <<NL>> \o join(Tail(lines))

\* text[k:] for an offset k counted in tokens
slice_from(text, k) == SubSeq(text, k + 1, Len(text))

-----------------------------------------------------------------------------
(* The regular expressions of log_regexes.py *)

\* gdos_reg.search(text) finds a match
gdos_reg_search(text) == \E i \in 1..Len(text) : text[i] = GDOS

\* list(mi_start_regex.finditer(text)): the end offset of every match, in order
mi_start_regex_finditer(text) ==
    SelectSeq([i \in 1..Len(text) |-> i], LAMBDA i : text[i] = MISTART)

\* re.search(r"\^C|Mission completed ABNORMALLY", text) finds a match
cancel_search(text) == \E i \in 1..Len(text) : text[i] = CANCEL

\* intentional_regex has a match that starts in token i of text: a phrase
\* that stands alone, a command followed by "\n", or a command that has a
\* character before it and "\n" after it
intentional_regex_at(text, i) ==
    \/ text[i] = PHRASE
    \/ text[i] = CMD /\ i < Len(text) /\ text[i + 1] = NL
    \/ text[i] = PCMD /\ i > 1 /\ i < Len(text) /\ text[i + 1] = NL

\* intentional_regex.search(text) finds a match
intentional_regex_search(text) ==
    \E i \in 1..Len(text) : intentional_regex_at(text, i)

\* xfer_reg.search(line) finds a match
xfer_reg_search(line) == \E i \in 1..Len(line) : line[i] = XFER

\* xfer_type_reg.search(text): the offset of the first match, 0 for None
xfer_type_reg_search(text) ==
    IF \E i \in 1..Len(text) : text[i] \in Markers
    THEN CHOOSE i \in 1..Len(text) :
             text[i] \in Markers /\ \A j \in 1..(i - 1) : text[j] \notin Markers
    ELSE 0

-----------------------------------------------------------------------------
(* _determine_xfer_drops *)

\* last_line, were the lines those of filetext.splitlines(): a newline
\* that ends the text opens no further line
last_line_splitlines(text) ==
    LET whole == IF Len(text) > 0 /\ text[Len(text)] = NL
                 THEN SubSeq(text, 1, Len(text) - 1)
                 ELSE text
        filelines == split(whole)
    IN  filelines[Len(filelines)]

\* filelines[-1] after filelines = filetext.split('\n')
last_line(text) == LET filelines == split(text) IN filelines[Len(filelines)]

\* drop_xfer_of, were the transfer looked for in every line
drop_xfer_of_any_line(text) == xfer_reg_search(text)

\* drop_xfer: the last line looks like a data transfer
drop_xfer_of(text) == xfer_reg_search(last_line(text))

\* reverse_filetext, were the lines not reversed
reverse_filetext_forward(text) == join(split(text))

\* reverse_filetext: the lines in reverse order, joined again
reverse_filetext(text) == join(reverse(split(text)))

\* file_xfer_type: group 1 of the first transfer-type match in the reversed
\* text, "None" without a match
file_xfer_type(text) ==
    LET rtext == reverse_filetext(text)
        at    == xfer_type_reg_search(rtext)
    IN  IF at = 0 THEN "None" ELSE group1(rtext[at])

\* re.match(r's[bc]d', file_xfer_type.lower())
is_flight(ext) == ext \in {"sbd", "scd"}
\* re.match(r't[bc]d', file_xfer_type.lower())
is_science(ext) == ext \in {"tbd", "tcd"}

\* _determine_xfer_drops, were other_xfer set whenever the kind is not known
_determine_xfer_drops_other_default(text) ==
    LET drop_xfer == drop_xfer_of(text)
        ext       == IF drop_xfer THEN file_xfer_type(text) ELSE "None"
    IN  [drop_xfer   |-> drop_xfer,
         flight_xfer |-> drop_xfer /\ is_flight(ext),
         sci_xfer    |-> drop_xfer /\ ~is_flight(ext) /\ is_science(ext),
         other_xfer  |-> drop_xfer /\ ~is_flight(ext) /\ ~is_science(ext)]

\* _determine_xfer_drops, were the kind looked for whatever drop_xfer is
_determine_xfer_drops_always_scans(text) ==
    LET ext   == file_xfer_type(text)
        found == ext # "None"
    IN  [drop_xfer   |-> drop_xfer_of(text),
         flight_xfer |-> found /\ is_flight(ext),
         sci_xfer    |-> found /\ ~is_flight(ext) /\ is_science(ext),
         other_xfer  |-> found /\ ~is_flight(ext) /\ ~is_science(ext)]

\* the tuple _determine_xfer_drops(filetext) returns
_determine_xfer_drops(text) ==
    LET drop_xfer == drop_xfer_of(text)
        ext       == IF drop_xfer THEN file_xfer_type(text) ELSE "None"
        found     == ext # "None"
    IN  [drop_xfer   |-> drop_xfer,
         flight_xfer |-> found /\ is_flight(ext),
         sci_xfer    |-> found /\ ~is_flight(ext) /\ is_science(ext),
         other_xfer  |-> found /\ ~is_flight(ext) /\ ~is_science(ext)]

-----------------------------------------------------------------------------
(* log_disconnect_info *)

\* shortened, were the text cut after the first attempt to start a mission
shortened_after_first(text) ==
    LET matchlist == mi_start_regex_finditer(text)
    IN  IF Len(matchlist) > 0 THEN slice_from(text, matchlist[1]) ELSE text

\* shortened, were the text left whole
shortened_not(text) == text

\* filetext after the mission-start special case: everything after the last
\* attempt to start a mission, the whole text when there was none
shortened(text) ==
    LET matchlist == mi_start_regex_finditer(text)
    IN  IF Len(matchlist) > 0
        THEN slice_from(text, matchlist[Len(matchlist)])
        ELSE text

\* in_mission, were the prompt looked for in the shortened text
in_mission_of_shortened(text) == ~gdos_reg_search(shortened(text))

\* in_mission: no GliderDos prompt in the log
in_mission_of(text) == ~gdos_reg_search(text)

\* mission_started, were the cancellation looked for in the whole log
mission_started_whole_log(text) ==
    /\ Len(mi_start_regex_finditer(text)) > 0
    /\ ~cancel_search(text)

\* mission_started, were the cancellation not looked for
mission_started_unchecked(text) == Len(mi_start_regex_finditer(text)) > 0

\* intentional_disconnect after the mission-start special case: a mission
\* was started and neither canceled nor aborted afterwards
mission_started(text) ==
    /\ Len(mi_start_regex_finditer(text)) > 0
    /\ ~cancel_search(shortened(text))

\* other_disconnects, were the phrases not looked for
other_disconnects_skipped(intentional_disconnect, text) == intentional_disconnect

\* intentional_disconnect after the check for the other disconnect phrases,
\* which reads filetext as the special case left it
other_disconnects(intentional_disconnect, text) ==
    intentional_disconnect \/ intentional_regex_search(text)

\* assertion_holds, were the assertion compiled away
assertion_off(intentional_disconnect, drop_xfer) == TRUE

\* the assertion on drop_xfer and intentional_disconnect does not fail
assertion_holds(intentional_disconnect, drop_xfer) ==
    (intentional_disconnect \/ drop_xfer) => (drop_xfer # intentional_disconnect)

\* the local variables of log_disconnect_info(logfile) at its assertion
log_disconnect_info(text) ==
    LET rest == shortened(text)
        xfer == _determine_xfer_drops(rest)
    IN  [filetext               |-> rest,
         in_mission             |-> in_mission_of(text),
         intentional_disconnect |-> other_disconnects(mission_started(text), rest),
         drop_xfer              |-> xfer.drop_xfer,
         flight_xfer            |-> xfer.flight_xfer,
         sci_xfer               |-> xfer.sci_xfer,
         other_xfer             |-> xfer.other_xfer]

\* the tuple log_disconnect_info returns, without the open time
returned_tuple(l) ==
    [intentional_disconnect |-> l.intentional_disconnect,
     in_mission             |-> l.in_mission,
     drop_xfer              |-> l.drop_xfer,
     flight_xfer            |-> l.flight_xfer,
     sci_xfer               |-> l.sci_xfer,
     other_xfer             |-> l.other_xfer]

-----------------------------------------------------------------------------
(* logcall_summary *)

\* a column of the dataframe
column(df, name) == [i \in 1..Len(df) |-> df[i][name]]
\* logical_not, were the column returned as it is
logical_not_same(a) == a

\* np.logical_not(a)
logical_not(a) == [i \in 1..Len(a) |-> ~a[i]]
\* np.logical_and(a, b)
logical_and(a, b) == [i \in 1..Len(a) |-> a[i] /\ b[i]]
\* sum(a) of a boolean column: the number of True
sum(a) == Cardinality({i \in 1..Len(a) : a[i]})

\* the greatest common divisor of two naturals
RECURSIVE gcd(_, _)
gcd(a, b) == IF b = 0 THEN a ELSE gcd(b, a % b)
\* the number n / d, d > 0, as a fraction in lowest terms
fraction(n, d) == LET g == gcd(n, d) IN <<n \div g, d \div g>>
\* the number 0
zero == <<0, 1>>

\* n / d raises ZeroDivisionError
truediv_raises(n, d) == d = 0
\* n / d, when it does not raise
truediv(n, d) == fraction(n, d)

\* truediv_or_0, were the rate of an empty bucket 1
truediv_or_1(n, d) == IF d > 0 THEN fraction(n, d) ELSE <<1, 1>>

\* n / d if d > 0 else 0
truediv_or_0(n, d) == IF d > 0 THEN fraction(n, d) ELSE zero
\* rate * 100
times_100(rate) == fraction(100 * rate[1], rate[2])

\* the counts logcall_summary takes of the dataframe
counts(df) ==
    LET intentional_disc   == column(df, "disconnect")
        in_mission         == column(df, "in_mission")
        data_xfer_drops    == column(df, "data_transfer_drop")
        flight_xfer_drops  == column(df, "flight_xfer_drop")
        science_xfer_drops == column(df, "science_xfer_drop")
        other_xfer_drops   == column(df, "other_data_xfer_drop")
        drops              == logical_not(intentional_disc)
        gliderdos          == logical_not(in_mission)
        inmis_drops        == logical_and(in_mission, drops)
        gdos_drops         == logical_and(gliderdos, drops)
        mis_xfer_drops     == logical_and(data_xfer_drops, inmis_drops)
        gdos_xfer_drops    == logical_and(data_xfer_drops, gdos_drops)
    IN  [n_calls                |-> Len(df),
         n_drops                |-> sum(drops),
         n_int_disc             |-> sum(intentional_disc),
         n_inmis                |-> sum(in_mission),
         n_gdos                 |-> sum(gliderdos),
         n_inmis_drops          |-> sum(inmis_drops),
         n_inmis_discs          |-> sum(logical_and(in_mission, intentional_disc)),
         n_gdos_drops           |-> sum(gdos_drops),
         n_gdos_discs           |-> sum(logical_and(gliderdos, intentional_disc)),
         n_data_xfer_drops      |-> sum(data_xfer_drops),
         n_mis_xfer_drops       |-> sum(mis_xfer_drops),
         n_gdos_xfer_drops      |-> sum(gdos_xfer_drops),
         n_fli_xfer_drops       |-> sum(flight_xfer_drops),
         n_sci_xfer_drops       |-> sum(science_xfer_drops),
         n_other_xfer_drops     |-> sum(other_xfer_drops),
         n_fli_xfer_drops_inmis |-> sum(logical_and(mis_xfer_drops, flight_xfer_drops)),
         n_sci_xfer_drops_inmis |-> sum(logical_and(mis_xfer_drops, science_xfer_drops)),
         n_oth_xfer_drops_inmis |-> sum(logical_and(mis_xfer_drops, other_xfer_drops)),
         n_fli_xfer_drops_gdos  |-> sum(logical_and(gdos_xfer_drops, flight_xfer_drops)),
         n_sci_xfer_drops_gdos  |-> sum(logical_and(gdos_xfer_drops, science_xfer_drops)),
         n_oth_xfer_drops_gdos  |-> sum(logical_and(gdos_xfer_drops, other_xfer_drops))]

\* the rates of the total of calls, which are divided without a guard
total_rates(n) ==
    [drop_call_rate |-> truediv(n.n_drops, n.n_calls),
     int_disc_rate  |-> truediv(n.n_int_disc, n.n_calls)]

\* the two assertions of logcall_summary do not fail
counts_add_up(n) ==
    /\ n.n_inmis_drops + n.n_inmis_discs = n.n_inmis
    /\ n.n_gdos_drops + n.n_gdos_discs = n.n_gdos

\* the rates of the conditioning buckets, each divided under its guard
bucket_rates(n) ==
    [inmis_drop_rate          |-> truediv_or_0(n.n_inmis_drops, n.n_inmis),
     inmis_disc_rate          |-> truediv_or_0(n.n_inmis_discs, n.n_inmis),
     gdos_drop_rate           |-> truediv_or_0(n.n_gdos_drops, n.n_gdos),
     gdos_disc_rate           |-> truediv_or_0(n.n_gdos_discs, n.n_gdos),
     data_xfer_drop_rate      |-> truediv_or_0(n.n_data_xfer_drops, n.n_drops),
     fli_xfer_drop_rate       |-> truediv_or_0(n.n_fli_xfer_drops, n.n_data_xfer_drops),
     sci_xfer_drop_rate       |-> truediv_or_0(n.n_sci_xfer_drops, n.n_data_xfer_drops),
     other_xfer_drop_rate     |-> truediv_or_0(n.n_other_xfer_drops, n.n_data_xfer_drops),
     inmis_fli_xfer_drop_rate |-> truediv_or_0(n.n_fli_xfer_drops_inmis, n.n_mis_xfer_drops),
     inmis_sci_xfer_drop_rate |-> truediv_or_0(n.n_sci_xfer_drops_inmis, n.n_mis_xfer_drops),
     inmis_oth_xfer_drop_rate |-> truediv_or_0(n.n_oth_xfer_drops_inmis, n.n_mis_xfer_drops),
     gdos_fli_xfer_drop_rate  |-> truediv_or_0(n.n_fli_xfer_drops_gdos, n.n_gdos_xfer_drops),
     gdos_sci_xfer_drop_rate  |-> truediv_or_0(n.n_sci_xfer_drops_gdos, n.n_gdos_xfer_drops),
     gdos_oth_xfer_drop_rate  |-> truediv_or_0(n.n_oth_xfer_drops_gdos, n.n_gdos_xfer_drops)]

\* the names of the rates of outdict
RateNames ==
    {"drop_call_rate", "int_disc_rate",
     "inmis_drop_rate", "inmis_disc_rate", "gdos_drop_rate", "gdos_disc_rate",
     "data_xfer_drop_rate",
     "fli_xfer_drop_rate", "sci_xfer_drop_rate", "other_xfer_drop_rate",
     "inmis_fli_xfer_drop_rate", "inmis_sci_xfer_drop_rate", "inmis_oth_xfer_drop_rate",
     "gdos_fli_xfer_drop_rate", "gdos_sci_xfer_drop_rate", "gdos_oth_xfer_drop_rate"}

\* outdict: the counts, and every rate times 100 under the name of its rate
outdict(n) ==
    LET total  == total_rates(n)
        bucket == bucket_rates(n)
    IN  [counts  |-> n,
         percent |-> [r \in RateNames |->
                         IF r \in DOMAIN total
                         THEN times_100(total[r])
                         ELSE times_100(bucket[r])]]

\* logcall_summary(logcall_dataframe): what it raises, or the outdict it
\* returns
logcall_summary(df) ==
    LET n == counts(df)
    IN  IF truediv_raises(n.n_drops, n.n_calls)
        THEN [raised |-> "ZeroDivisionError"]
        ELSE IF ~counts_add_up(n)
        THEN [raised |-> "AssertionError"]
        ELSE [raised |-> "no", outdict |-> outdict(n)]

-----------------------------------------------------------------------------
(* The calls *)

None == [none |-> TRUE]

Init ==
    /\ filetext \in LogTexts
    /\ pc = "ready"
    /\ locals = None
    /\ result = None
    /\ logsdir = {}
    /\ logfiles = <<>>
    /\ logcall_dataframe = <<>>
    /\ dataroot = <<>>
    /\ proj_root = None
    /\ logger = <<>>
    /\ now = 0

\* log_disconnect_info(logfile) runs on the log: it returns its tuple, or
\* its assertion fails and it raises AssertionError
LogDisconnectInfo ==
    /\ pc = "ready"
    /\ LET l == log_disconnect_info(filetext)
       IN  /\ locals' = l
           /\ IF assertion_holds(l.intentional_disconnect, l.drop_xfer)
              THEN pc' = "returned" /\ result' = returned_tuple(l)
              ELSE pc' = "raised" /\ result' = None
    /\ UNCHANGED <<filetext, logsdir, logfiles, logcall_dataframe>>
    /\ UNCHANGED run_vars

\* determine_xfer_drops(file) runs on the log
DetermineXferDrops ==
    /\ pc = "ready"
    /\ pc' = "xfer_returned"
    /\ result' = _determine_xfer_drops(filetext)
    /\ UNCHANGED <<filetext, locals, logsdir, logfiles, logcall_dataframe>>
    /\ UNCHANGED run_vars

Next == LogDisconnectInfo \/ DetermineXferDrops

Spec == Init /\ [][Next]_vars

-----------------------------------------------------------------------------
(* The calls of logcall_summary *)

\* most rows of a dataframe
MaxCalls == 2

\* the rows of a dataframe whose fields are booleans; logcall_summary does
\* not read the open time
BooleanRows ==
    [open_time            : {0},
     disconnect           : BOOLEAN,
     in_mission           : BOOLEAN,
     data_transfer_drop   : BOOLEAN,
     flight_xfer_drop     : BOOLEAN,
     science_xfer_drop    : BOOLEAN,
     other_data_xfer_drop : BOOLEAN]

InitSummary ==
    /\ logcall_dataframe \in SeqsUpTo(BooleanRows, MaxCalls)
    /\ pc = "frame"
    /\ filetext = <<>>
    /\ locals = None
    /\ result = None
    /\ logsdir = {}
    /\ logfiles = <<>>
    /\ dataroot = <<>>
    /\ proj_root = None
    /\ logger = <<>>
    /\ now = 0

\* logcall_summary(logcall_dataframe) runs on the dataframe: it returns
\* outdict, or raises
LogcallSummary ==
    /\ pc = "frame"
    /\ LET r == logcall_summary(logcall_dataframe)
       IN  IF r.raised = "no"
           THEN pc' = "summary_returned" /\ result' = r.outdict
           ELSE pc' = "summary_raised" /\ result' = r
    /\ UNCHANGED <<filetext, locals, logsdir, logfiles, logcall_dataframe>>
    /\ UNCHANGED run_vars

NextSummary == LogcallSummary

SpecSummary == InitSummary /\ [][NextSummary]_vars

-----------------------------------------------------------------------------
(* analyze_logfiles and logsdir_iridium_analysis *)

\* most log files of a logs directory
MaxFiles == 3

\* the texts of the log files of a directory: an intentional disconnect in
\* mission, a drop in a science transfer out of mission, a drop after a
\* canceled mission start, a text on which log_disconnect_info raises, and
\* drops in mission in a flight transfer, in a transfer of another kind and
\* in a transfer of no known kind
BatchTexts ==
    {<<PHRASE>>,
     <<GDOS, ZMODEM["tbd"], NL, XFER>>,
     <<MISTART, CANCEL>>,
     <<PHRASE, NL, XFER>>,
     <<ZMODEM["sbd"], NL, XFER>>,
     <<ZMODEM["mbd"], NL, XFER>>,
     <<XFER>>}

\* the logs directories: each file has the open time its name gives, in
\* days, and its text; no two files of a directory have the same name
LogsDirs ==
    UNION {{{[open_time |-> t, filetext |-> text[t]] : t \in times} :
               text \in [times -> BatchTexts]} : times \in SUBSET (1..MaxFiles)}

\* the orders in which the files of a directory can be listed
Orders(d) ==
    {o \in [1..Cardinality(d) -> d] : \A f \in d : \E i \in 1..Cardinality(d) : o[i] = f}

\* log_open_datetime(logfile)
log_open_datetime(logfile) == logfile.open_time

\* log_disconnect_info(logfile) raises AssertionError
log_disconnect_info_raises(logfile) ==
    LET l == log_disconnect_info(logfile.filetext)
    IN  ~assertion_holds(l.intentional_disconnect, l.drop_xfer)

\* the row of the dataframe for the tuple log_disconnect_info(logfile)
\* returns
dataframe_row(logfile) ==
    LET l == log_disconnect_info(logfile.filetext)
    IN  [open_time            |-> log_open_datetime(logfile),
         disconnect           |-> l.intentional_disconnect,
         in_mission           |-> l.in_mission,
         data_transfer_drop   |-> l.drop_xfer,
         flight_xfer_drop     |-> l.flight_xfer,
         science_xfer_drop    |-> l.sci_xfer,
         other_data_xfer_drop |-> l.other_xfer]

\* _analyze_logfiles, were the rows returned last file first
_analyze_logfiles_reversed(files) ==
    IF \E i \in 1..Len(files) : log_disconnect_info_raises(files[i])
    THEN [raised |-> "AssertionError"]
    ELSE [raised |-> "no",
          rows   |-> [i \in 1..Len(files) |-> dataframe_row(files[Len(files) + 1 - i])]]

\* _analyze_logfiles, were the files on which log_disconnect_info raises
\* left out
_analyze_logfiles_skipping(files) ==
    [raised |-> "no",
     rows   |-> LET kept == SelectSeq(files, LAMBDA f : ~log_disconnect_info_raises(f))
                IN  [i \in 1..Len(kept) |-> dataframe_row(kept[i])]]

\* _analyze_logfiles(logfiles) and the dataframe analyze_logfiles makes of
\* it: map(log_disconnect_info, logfiles) raises what the first failing call
\* raises, or gives one row for each file, in the order of the files
_analyze_logfiles(files) ==
    IF \E i \in 1..Len(files) : log_disconnect_info_raises(files[i])
    THEN [raised |-> "AssertionError"]
    ELSE [raised |-> "no",
          rows   |-> [i \in 1..Len(files) |-> dataframe_row(files[i])]]

\* len_days_fromlogs: the open time of the last row less that of the first
len_days_fromlogs(df) == df[Len(df)].open_time - df[1].open_time

InitBatch ==
    /\ logsdir \in LogsDirs
    /\ pc = "dir"
    /\ filetext = <<>>
    /\ locals = None
    /\ result = None
    /\ logfiles = <<>>
    /\ logcall_dataframe = <<>>
    /\ dataroot = <<>>
    /\ proj_root = None
    /\ logger = <<>>
    /\ now = 0

\* analyze_logfiles(logfiles) runs on the files of the directory, given in
\* some order: it returns the dataframe, or raises
AnalyzeLogfiles ==
    /\ pc = "dir"
    /\ logsdir # {}
    /\ \E files \in Orders(logsdir) :
           /\ logfiles' = files
           /\ \E r \in {_analyze_logfiles(files)} :
                  IF r.raised = "no"
                  THEN /\ pc' = "analyze_returned"
                       /\ logcall_dataframe' = r.rows
                       /\ result' = r.rows
                  ELSE /\ pc' = "analyze_raised"
                       /\ result' = r
                       /\ UNCHANGED logcall_dataframe
    /\ UNCHANGED <<filetext, locals, logsdir>>
    /\ UNCHANGED run_vars

\* the tuple logsdir_iridium_analysis returns: the summary, with the length
\* in days in it, and the dataframe, unless logcall_summary raised
summary_results_and_df(summary, analysis_df) ==
    IF summary.raised # "no"
    THEN summary
    ELSE [raised                |-> "no",
          returned              |-> "tuple",
          summary_results       |-> summary.outdict,
          length_days_from_logs |-> len_days_fromlogs(analysis_df),
          analysis_df           |-> analysis_df]

\* logsdir_iridium_analysis after its call of analyze_logfiles, which
\* returned the dataframe or raised
logsdir_iridium_analysis_of(analyzed) ==
    IF analyzed.raised # "no"
    THEN analyzed
    ELSE summary_results_and_df(logcall_summary(analyzed.rows), analyzed.rows)

\* logsdir_iridium_analysis, given the files glob.glob lists: without files
\* None is returned
logsdir_iridium_analysis(files) ==
    IF Len(files) = 0
    THEN [raised |-> "no", returned |-> "None"]
    ELSE logsdir_iridium_analysis_of(_analyze_logfiles(files))

\* logsdir_iridium_analysis(logsdir) runs on the directory: glob.glob lists
\* the files in an order of its own
LogsdirIridiumAnalysis ==
    /\ pc = "dir"
    /\ \E files \in Orders(logsdir) :
           /\ logfiles' = files
           /\ \E r \in {logsdir_iridium_analysis(files)} :
                  IF r.raised # "no"
                  THEN /\ pc' = "logsdir_raised"
                       /\ result' = r
                       /\ UNCHANGED logcall_dataframe
                  ELSE IF r.returned = "None"
                  THEN /\ pc' = "logsdir_returned_none"
                       /\ UNCHANGED <<result, logcall_dataframe>>
                  ELSE /\ pc' = "logsdir_returned"
                       /\ logcall_dataframe' = r.analysis_df
                       /\ result' = [summary_results       |-> r.summary_results,
                                     length_days_from_logs |-> r.length_days_from_logs,
                                     analysis_df           |-> r.analysis_df]
    /\ UNCHANGED <<filetext, locals, logsdir>>
    /\ UNCHANGED run_vars

NextBatch == AnalyzeLogfiles \/ LogsdirIridiumAnalysis

SpecBatch == InitBatch /\ [][NextBatch]_vars

-----------------------------------------------------------------------------
(* ooice_iridium_analysis.py: the run over the deployments *)

MaxRuns == 3

\* a date: pd.NaT, or the day of a timestamp
NaT == [nat |-> TRUE, day |-> 0]

Timestamp(day) == [nat |-> FALSE, day |-> day]

\* t.strftime("%Y-%m-%dT%H:%M:%S")
strftime(t) == ToString(t.day)

\* the directories glob.glob(dataroot/ce05moas-g*/D000*/logs) finds, each
\* given by the name of the glider directory after "ce05moas-g" and the name
\* of the deployment directory:
\* ce05moas-gl384/D00001/logs, ce05moas-gl0525/D00002/logs and
\* ce05moas-gx/D00001/logs
DeploymentDirs ==
    {[glider |-> <<"l", "3", "8", "4">>,      deployment |-> <<"D", "0", "0", "0", "0", "1">>],
     [glider |-> <<"l", "0", "5", "2", "5">>, deployment |-> <<"D", "0", "0", "0", "0", "2">>],
     [glider |-> <<"x">>,                     deployment |-> <<"D", "0", "0", "0", "0", "1">>]}

Digits == {"0", "1", "2", "3", "4", "5", "6", "7", "8", "9"}

\* the leading characters "l" of s are left out: what l* matches
RECURSIVE after_l(_)
after_l(s) == IF Len(s) > 0 /\ s[1] = "l" THEN after_l(Tail(s)) ELSE s

\* fileregex.search(logsdir), of ce05moas-gl*(\d{3,4})(?:\\|/)(D\d{5}):
\* whether it matches, and its groups
fileregex_search(dir) ==
    LET digits == after_l(dir.glider)
        number == slice_from(dir.deployment, 1)
    IN  IF /\ Len(digits) \in {3, 4}
           /\ \A i \in 1..Len(digits) : digits[i] \in Digits
           /\ Len(dir.deployment) > 5
           /\ dir.deployment[1] = "D"
           /\ \A i \in 1..5 : number[i] \in Digits
        THEN [matched |-> TRUE, glider |-> digits,
              deploynum |-> SubSeq(dir.deployment, 1, 6)]
        ELSE [matched |-> FALSE]

\* deploynum.replace("D", "")
replace_D(deploynum) == SelectSeq(deploynum, LAMBDA c : c # "D")

\* str(int(digits))
RECURSIVE str_int(_)
str_int(digits) ==
    IF Len(digits) > 1 /\ digits[1] = "0" THEN str_int(Tail(digits)) ELSE digits

\* glider[1:] if glider.startswith('0'), the OOI name of a G3 glider
glider_sn(glider) == IF glider[1] = "0" THEN slice_from(glider, 1) ELSE glider

\* deploykey = glider + "-" + deploynum.replace("D", "")
deploykey_of(glider, deploynum) == glider \o <<"-">> \o replace_D(deploynum)

\* key in a list
in(key, list) == \E i \in 1..Len(list) : list[i] = key

\* dict[key] = value
setitem(dict, key, value) ==
    [k \in DOMAIN dict \cup {key} |-> IF k = key THEN value ELSE dict[k]]

\* the logs directories of the deployments: without logs, with the log of
\* an intentional disconnect, and with a log on which log_disconnect_info
\* raises
RunLogsDirs ==
    {{},
     {[open_time |-> 1, filetext |-> <<PHRASE>>]},
     {[open_time |-> 1, filetext |-> <<PHRASE, NL, XFER>>]}}

\* what is found under dataroot: for each directory its log files and the
\* end google.deployment_dates_pdts gives for the deployment (the launch is
\* day 0); nothing is asked about a directory that fileregex does not match
DataRoots ==
    {d \in [DeploymentDirs -> [logs : RunLogsDirs, end : {NaT, Timestamp(0)}]] :
        \A dir \in DeploymentDirs :
            ~fileregex_search(dir).matched => d[dir] = [logs |-> {}, end |-> NaT]}

\* deploy_info of ooice_deployment_results (the fin and glider types of the
\* metadata file and the launch date are the same in every run and left
\* out)
deploy_info(glider, deploynum, end) ==
    [glider_sn         |-> glider,
     deployment_number |-> str_int(replace_D(deploynum)),
     length_days       |-> IF end.nat THEN now ELSE end.day,
     end_datetime      |-> IF end.nat THEN "still deployed" ELSE strftime(end)]

\* '{}-{}.csv'.format(glider, deploynum) and the .json name
deploy_csv(info) == info.glider_sn \o <<"-">> \o info.deployment_number \o <<".csv">>

deploy_json(info) == info.glider_sn \o <<"-">> \o info.deployment_number \o <<".json">>

\* ooice_deployment_results from its line 190 on, given deploy_info and what
\* logsdir_iridium_analysis did: an exception of the analysis goes on to
\* the caller, None cannot be unpacked into the two names of line 190, and
\* else (the summary is a dict with all its keys, so line 192 is not
\* reached) the csv and json files are written and deploy_info, updated
\* with the summary, is returned
ooice_deployment_results_of(info, analysis) ==
    IF analysis.raised # "no"
    THEN analysis
    ELSE IF analysis.returned = "None"
    THEN [raised |-> "TypeError"]
    ELSE [raised      |-> "no",
          analysis_df |-> analysis.analysis_df,
          deploy_info |-> [glider_sn             |-> info.glider_sn,
                           deployment_number     |-> info.deployment_number,
                           length_days           |-> info.length_days,
                           end_datetime          |-> info.end_datetime,
                           summary_results       |-> analysis.summary_results,
                           length_days_from_logs |-> analysis.length_days_from_logs]]

\* ooice_deployment_results(logsdir, glider, deploynum, write_dir), given
\* the files glob.glob lists in logsdir and the end of the deployment
ooice_deployment_results(files, glider, deploynum, end) ==
    ooice_deployment_results_of(deploy_info(glider, deploynum, end),
                                logsdir_iridium_analysis(files))

\* completed, were the key appended after every analysis
completed_with_still_deployed(completed, deploykey, results) ==
    [completed EXCEPT !.deployments = Append(@, deploykey)]

\* completed after lines 261-262: the key is appended unless the deployment
\* is still deployed
completed_with(completed, deploykey, results) ==
    IF results["end_datetime"] # "still deployed"
    THEN [completed EXCEPT !.deployments = Append(@, deploykey)]
    ELSE completed

\* all_deployment_results after line 263
all_deployment_results_with(all, deploykey, results) ==
    [all EXCEPT !.results = setitem(@, deploykey, results)]

\* the files under proj_root after write_analysis_csv, write_analysis_json
\* and the two json.dump of lines 268-272
proj_root_with(files, returned, completed, all) ==
    [files EXCEPT
        !.deployments    = setitem(setitem(@, deploy_csv(returned.deploy_info),
                                           returned.analysis_df),
                                   deploy_json(returned.deploy_info),
                                   returned.deploy_info),
        !.completed_file = completed,
        !.json_results   = all]

InitRun ==
    /\ dataroot \in DataRoots
    /\ proj_root = [write_dirname  |-> FALSE,
                    completed_file |-> None,
                    json_results   |-> None,
                    deployments    |-> <<>>,
                    histograms     |-> 0]
    /\ logger = <<>>
    /\ now = 0
    /\ pc = "idle"
    /\ filetext = <<>>
    /\ locals = None
    /\ result = None
    /\ logsdir = {}
    /\ logfiles = <<>>
    /\ logcall_dataframe = <<>>

\* full_run_ooice_log_call_analysis(overwrite) starts, lines 211-242: the
\* write directory is made, completed.json and the summary json are loaded
\* unless overwrite, and glob.glob lists the logs directories in an order
\* of its own
StartRun ==
    /\ pc \in {"idle", "run_returned", "run_raised"}
    /\ now < MaxRuns
    /\ now' = now + 1
    /\ \E overwrite \in BOOLEAN, deployment_dirs \in Orders(DeploymentDirs) :
           locals' =
               [overwrite       |-> overwrite,
                \* history: some run up to this one was called with overwrite
                overwritten     |-> overwrite \/ (locals # None /\ locals.overwritten),
                run_time_str    |-> now',
                completed       |->
                    IF proj_root.completed_file # None /\ ~overwrite
                    THEN proj_root.completed_file
                    ELSE [last_run_time |-> now', deployments |-> <<>>],
                all_deployment_results |->
                    IF proj_root.json_results # None /\ ~overwrite
                    THEN proj_root.json_results
                    ELSE [last_run_time |-> now', results |-> <<>>],
                deployment_dirs |-> deployment_dirs,
                position        |-> 1]
    /\ proj_root' = [proj_root EXCEPT !.write_dirname = TRUE]
    /\ logger' = <<>>
    /\ result' = None
    /\ pc' = "loop"
    /\ UNCHANGED <<filetext, logsdir, logfiles, logcall_dataframe, dataroot>>

\* one turn of the loop of lines 244-275 on the next logs directory: its
\* name is not understood, or its key is in completed and it is skipped, or
\* ooice_deployment_results runs on it; what that call raises ends the run,
\* and what it returns is stored and both json files are written
ForLogsdir ==
    /\ pc = "loop"
    /\ locals.position <= Len(locals.deployment_dirs)
    /\ LET dir       == locals.deployment_dirs[locals.position]
           rematch   == fileregex_search(dir)
           glider    == glider_sn(rematch.glider)
           deploykey == deploykey_of(glider, rematch.deploynum)
       IN  IF ~rematch.matched
           THEN /\ logger' = Append(logger, [levelname |-> "ERROR",
                                             msg       |-> "cannot determine glider and deployment",
                                             logsdir   |-> dir])
                /\ locals' = [locals EXCEPT !.position = @ + 1]
                /\ UNCHANGED <<pc, result, logsdir, logfiles, logcall_dataframe, proj_root>>
           ELSE IF in(deploykey, locals.completed.deployments)
           THEN /\ logger' = Append(logger, [levelname |-> "INFO",
                                             msg       |-> "skipping",
                                             deploykey |-> deploykey])
                /\ locals' = [locals EXCEPT !.position = @ + 1]
                /\ UNCHANGED <<pc, result, logsdir, logfiles, logcall_dataframe, proj_root>>
           ELSE /\ logger' = Append(logger, [levelname |-> "INFO",
                                             msg       |-> "Running",
                                             deploykey |-> deploykey])
                /\ logsdir' = dataroot[dir].logs
                /\ \E files \in Orders(dataroot[dir].logs) :
                       /\ logfiles' = files
                       /\ \E returned \in {ooice_deployment_results(
                                               files, glider, rematch.deploynum,
                                               dataroot[dir].end)} :
                              IF returned.raised # "no"
                              THEN /\ pc' = "run_raised"
                                   /\ result' = returned
                                   /\ UNCHANGED <<locals, logcall_dataframe, proj_root>>
                              ELSE /\ pc' = "loop"
                                   /\ result' = returned.deploy_info
                                   /\ logcall_dataframe' = returned.analysis_df
                                   /\ \E completed \in {completed_with(
                                              locals.completed, deploykey,
                                              returned.deploy_info)},
                                         all \in {all_deployment_results_with(
                                              locals.all_deployment_results, deploykey,
                                              returned.deploy_info)} :
                                          /\ locals' = [locals EXCEPT
                                                 !.completed = completed,
                                                 !.all_deployment_results = all,
                                                 !.position = @ + 1]
                                          /\ proj_root' = proj_root_with(
                                                 proj_root, returned, completed, all)
    /\ UNCHANGED <<filetext, dataroot, now>>

\* the loop is over: make_histograms(all_deployment_results) saves the two
\* histograms of the day and the run returns
MakeHistograms ==
    /\ pc = "loop"
    /\ locals.position > Len(locals.deployment_dirs)
    /\ proj_root' = [proj_root EXCEPT !.histograms = now]
    /\ pc' = "run_returned"
    /\ UNCHANGED <<filetext, locals, result, logsdir, logfiles, logcall_dataframe,
                   dataroot, logger, now>>

\* between two runs a deployment ends: google.deployment_dates_pdts gives
\* its end from then on
DeploymentEnds ==
    /\ pc \in {"idle", "run_returned", "run_raised"}
    /\ \E dir \in DeploymentDirs :
           /\ fileregex_search(dir).matched
           /\ dataroot[dir].end.nat
           /\ dataroot' = [dataroot EXCEPT ![dir].end = Timestamp(now)]
    /\ UNCHANGED <<filetext, pc, locals, result, logsdir, logfiles, logcall_dataframe,
                   proj_root, logger, now>>

NextRun == StartRun \/ ForLogsdir \/ MakeHistograms \/ DeploymentEnds

SpecRun == InitRun /\ [][NextRun]_vars

-----------------------------------------------------------------------------
(* What the claims speak of, said of the log text itself *)

\* log_disconnect_info has run on the log
Called == pc \in {"returned", "raised"}

\* the places of the task-start occurrences in the log
Starts == {i \in 1..Len(filetext) : filetext[i] = MISTART}
HasStart == Starts # {}
\* the place of the last task-start occurrence, 0 without one
LastStart == IF HasStart THEN CHOOSE i \in Starts : \A j \in Starts : j <= i ELSE 0

\* cancellation evidence after the last task-start occurrence
CancelAfterLastStart ==
    HasStart /\ \E i \in (LastStart + 1)..Len(filetext) : filetext[i] = CANCEL

\* the text after the last task-start occurrence
AfterLastStart == [i \in 1..(Len(filetext) - LastStart) |-> filetext[LastStart + i]]

\* an intentional-termination pattern matches somewhere in the whole log
PatternInLog == \E i \in 1..Len(filetext) : intentional_regex_at(filetext, i)
\* an intentional-termination pattern matches within the text after the last
\* task-start occurrence
PatternAfterLastStart ==
    \E i \in 1..Len(AfterLastStart) : intentional_regex_at(AfterLastStart, i)

\* the last line of the text from place k on matches the transfer-occurred
\* pattern: a match with no newline after it
LastLineIsTransferFrom(k) ==
    \E i \in k..Len(filetext) :
        filetext[i] = XFER /\ \A j \in (i + 1)..Len(filetext) : filetext[j] # NL

-----------------------------------------------------------------------------
(* C1 *)

\* C1: log_disconnect_info never returns a tuple in which
\* intentional_disconnect and drop_xfer are both true; it raises exactly when
\* it found both, and otherwise returns what it found.
C1_NeverBothTrue ==
    Called =>
        /\ (pc = "raised") <=> (locals.intentional_disconnect /\ locals.drop_xfer)
        /\ pc = "returned" =>
               /\ ~(result.intentional_disconnect /\ result.drop_xfer)
               /\ result = returned_tuple(locals)

\* an intentional disconnect and a transfer on the last line were both
\* found, and the call raised
C1_Witness ==
    /\ pc = "raised"
    /\ PatternInLog
    /\ LastLineIsTransferFrom(1)

-----------------------------------------------------------------------------
(* C2 *)

\* C2 as claimed: with cancellation evidence after the last task-start, an
\* intentional-termination pattern anywhere in the whole log gives
\* intentional = true.
C2_ScanOfWholeLog ==
    (Called /\ CancelAfterLastStart /\ PatternInLog) => locals.intentional_disconnect

\* C2 as amended: with cancellation evidence after the last task-start, the
\* intentional-termination patterns are looked for in the text after the
\* last task-start only, and intentional is true exactly when one matches
\* there.
C2_ScanAfterLastStart ==
    (Called /\ CancelAfterLastStart) =>
        /\ locals.intentional_disconnect <=> PatternAfterLastStart
        /\ pc = "returned" => (result.intentional_disconnect <=> PatternAfterLastStart)

\* a pattern before the last task-start only, cancellation after it, and the
\* call returned intentional = false
C2_Witness ==
    /\ pc = "returned"
    /\ CancelAfterLastStart
    /\ PatternInLog
    /\ ~PatternAfterLastStart
    /\ ~result.intentional_disconnect

-----------------------------------------------------------------------------
(* C3 *)

\* C3 as claimed: the transfer fields log_disconnect_info returns are what
\* _determine_xfer_drops gives for the whole, unshortened log, so that a
\* transfer-type marker before the last task-start still decides the kind.
C3_TransferOfWholeLog ==
    pc = "returned" =>
        LET whole == _determine_xfer_drops(filetext)
        IN  /\ result.drop_xfer = whole.drop_xfer
            /\ result.flight_xfer = whole.flight_xfer
            /\ result.sci_xfer = whole.sci_xfer
            /\ result.other_xfer = whole.other_xfer

-----------------------------------------------------------------------------
(* C4 *)

\* C4 as claimed: a task-start with no cancellation evidence after the last
\* one always yields a returned verdict with intentional = true.
C4_AlwaysAVerdict ==
    (Called /\ HasStart /\ ~CancelAfterLastStart) =>
        (pc = "returned" /\ result.intentional_disconnect)

\* C4 as amended: a task-start with no cancellation evidence after the last
\* one sets intentional = true whatever the intentional-termination patterns
\* say; the verdict is returned with intentional = true unless the text
\* after the last task-start ends in a line that matches the
\* transfer-occurred pattern, and then the consistency failure is raised.
C4_IntentionalOrRaise ==
    (Called /\ HasStart /\ ~CancelAfterLastStart) =>
        /\ locals.intentional_disconnect
        /\ (pc = "raised") <=> LastLineIsTransferFrom(LastStart + 1)
        /\ pc = "returned" => result.intentional_disconnect

\* a task-start, nothing canceled, no intentional-termination pattern in the
\* log, and the verdict returned is intentional
C4_Witness ==
    /\ pc = "returned"
    /\ HasStart
    /\ ~CancelAfterLastStart
    /\ ~PatternInLog
    /\ result.intentional_disconnect

-----------------------------------------------------------------------------
(* C5 *)

\* cancellation evidence between an earlier task-start and the last one
CancelBetweenStarts ==
    \E i \in Starts : \E c \in (i + 1)..(LastStart - 1) : filetext[c] = CANCEL

\* C5: with several task-starts, cancellation evidence that lies only
\* between earlier task-starts and the last one does not prevent
\* intentional = true.
C5_OnlyAfterLastStart ==
    (Called /\ CancelBetweenStarts /\ ~CancelAfterLastStart) =>
        /\ locals.intentional_disconnect
        /\ pc = "returned" => result.intentional_disconnect

\* an early canceled attempt, a later clean one, no intentional-termination
\* pattern, and the verdict returned is intentional
C5_Witness ==
    /\ pc = "returned"
    /\ Cardinality(Starts) >= 2
    /\ CancelBetweenStarts
    /\ ~CancelAfterLastStart
    /\ ~PatternInLog
    /\ result.intentional_disconnect

-----------------------------------------------------------------------------
(* C6 *)

\* C6: a last task-start followed by cancellation evidence does not make the
\* call intentional; without any intentional-termination pattern in the log
\* the verdict is returned with intentional = false.
C6_CanceledStartNotIntentional ==
    (Called /\ CancelAfterLastStart /\ ~PatternInLog) =>
        (pc = "returned" /\ ~result.intentional_disconnect)

\* a task-start canceled afterwards, and the verdict returned is a drop
C6_Witness ==
    /\ pc = "returned"
    /\ CancelAfterLastStart
    /\ ~PatternInLog
    /\ ~result.intentional_disconnect

-----------------------------------------------------------------------------
(* C7 *)

\* the places of the GliderDos prompts in the log
Prompts == {i \in 1..Len(filetext) : filetext[i] = GDOS}

\* C7: in_mission is false exactly when a GliderDos prompt occurs anywhere
\* in the whole log, also before the last task-start.
C7_InMissionOfWholeLog ==
    Called =>
        /\ locals.in_mission <=> (Prompts = {})
        /\ pc = "returned" => (result.in_mission <=> (Prompts = {}))

\* a prompt before the last task-start only, and in_mission returned false
C7_Witness ==
    /\ pc = "returned"
    /\ HasStart
    /\ Prompts # {}
    /\ \A i \in Prompts : i < LastStart
    /\ ~result.in_mission

-----------------------------------------------------------------------------
(* C8 *)

\* C8: without a task-start in the log, intentional is true exactly when an
\* intentional-termination pattern matches somewhere in the whole log.
C8_NoStartScan ==
    (Called /\ ~HasStart) =>
        /\ locals.intentional_disconnect <=> PatternInLog
        /\ pc = "returned" => (result.intentional_disconnect <=> PatternInLog)

\* no task-start, a pattern in the log, and the verdict returned is
\* intentional
C8_Witness ==
    /\ pc = "returned"
    /\ ~HasStart
    /\ PatternInLog
    /\ result.intentional_disconnect

-----------------------------------------------------------------------------
(* C9 *)

\* C9: _determine_xfer_drops gives drop_xfer = true exactly when the last
\* line of its text matches the transfer-occurred pattern; a match on any
\* other line does not count.
C9_LastLineOnly ==
    pc = "xfer_returned" => (result.drop_xfer <=> LastLineIsTransferFrom(1))

\* the transfer-occurred pattern on a line that is not the last, and
\* drop_xfer returned false
C9_Witness ==
    /\ pc = "xfer_returned"
    /\ \E i \in 1..Len(filetext) : filetext[i] = XFER
    /\ ~LastLineIsTransferFrom(1)
    /\ ~result.drop_xfer

-----------------------------------------------------------------------------
(* C10 *)

\* the places of the transfer-type markers in the log
MarkerPlaces == {i \in 1..Len(filetext) : filetext[i] \in Markers}
\* places i <= j of the log are on the same line
SameLine(i, j) == \A k \in i..j : filetext[k] # NL
\* the marker the claim names: on the latest line that has a marker (the
\* leftmost one, should that line have several)
DecidingMarker ==
    CHOOSE i \in MarkerPlaces :
        /\ \A j \in MarkerPlaces : j > i => SameLine(i, j)
        /\ \A j \in MarkerPlaces : j < i => ~SameLine(j, i)

\* C10: when drop_xfer is true, the marker on the latest line that has one
\* decides the kind: flight for sbd and scd, science for tbd and tcd, other
\* for any other extension; markers on earlier lines decide nothing.
C10_LatestMarkerDecides ==
    (pc = "xfer_returned" /\ result.drop_xfer /\ MarkerPlaces # {}) =>
        LET ext == group1(filetext[DecidingMarker])
        IN  /\ result.flight_xfer <=> ext \in {"sbd", "scd"}
            /\ result.sci_xfer <=> ext \in {"tbd", "tcd"}
            /\ result.other_xfer <=> ext \notin {"sbd", "scd", "tbd", "tcd"}

\* a flight marker on an earlier line, a science marker on a later one, and
\* the kind returned is science
C10_Witness ==
    /\ pc = "xfer_returned"
    /\ result.drop_xfer
    /\ \E i, j \in MarkerPlaces :
           /\ i < j
           /\ ~SameLine(i, j)
           /\ group1(filetext[i]) = "sbd"
           /\ group1(filetext[j]) = "tcd"
           /\ j = DecidingMarker
    /\ result.sci_xfer
    /\ ~result.flight_xfer

-----------------------------------------------------------------------------
(* C11 *)

\* the extensions of the flight and science families
KnownExtensions == {"sbd", "scd", "tbd", "tcd"}

-----------------------------------------------------------------------------
(* C12 *)

\* the kinds that are true in a tuple of _determine_xfer_drops
KindsOf(r) ==
    {k \in {"flight", "science", "other"} :
        \/ k = "flight" /\ r.flight_xfer
        \/ k = "science" /\ r.sci_xfer
        \/ k = "other" /\ r.other_xfer}

\* C12: at most one of the three kinds is true, a true kind comes with
\* drop_xfer = true, and with drop_xfer = false the three kinds are false,
\* whatever markers the text has.
C12_KindsAreSubtypes ==
    pc \in {"xfer_returned", "returned"} =>
        /\ Cardinality(KindsOf(result)) <= 1
        /\ KindsOf(result) # {} => result.drop_xfer
        /\ ~result.drop_xfer => KindsOf(result) = {}

\* markers in the text, no transfer on the last line, and no kind returned
C12_Witness ==
    /\ pc = "xfer_returned"
    /\ MarkerPlaces # {}
    /\ ~LastLineIsTransferFrom(1)
    /\ ~result.drop_xfer
    /\ KindsOf(result) = {}

-----------------------------------------------------------------------------
(* C20 *)

\* the text ends in a newline, and the line that newline ends matches the
\* transfer-occurred pattern
TransferLineThenNewline ==
    /\ Len(filetext) > 0
    /\ filetext[Len(filetext)] = NL
    /\ \E i \in 1..(Len(filetext) - 1) :
           /\ filetext[i] = XFER
           /\ \A j \in (i + 1)..(Len(filetext) - 1) : filetext[j] # NL

\* the text without its last character
WithoutLast == SubSeq(filetext, 1, Len(filetext) - 1)

\* C20: the last line is the text after the final newline: a text whose
\* final transfer-occurred line is ended by a newline has an empty last line
\* and gives drop_xfer = false, and the same text without that newline gives
\* drop_xfer = true.
C20_TrailingNewline ==
    (pc = "xfer_returned" /\ TransferLineThenNewline) =>
        /\ last_line(filetext) = <<>>
        /\ ~result.drop_xfer
        /\ _determine_xfer_drops(WithoutLast).drop_xfer

\* a transfer-occurred line ended by a newline, and drop_xfer returned false
C20_Witness ==
    /\ pc = "xfer_returned"
    /\ TransferLineThenNewline
    /\ ~result.drop_xfer

-----------------------------------------------------------------------------
(* C13 *)

\* logcall_summary has run on the dataframe
Summarized == pc \in {"summary_returned", "summary_raised"}

\* C13 as claimed: logcall_summary of a dataframe without rows returns a
\* summary whose counts and rates are all 0, and raises nothing.
C13_EmptyFrameAllZero ==
    (Summarized /\ Len(logcall_dataframe) = 0) =>
        /\ pc = "summary_returned"
        /\ \A c \in DOMAIN result.counts : result.counts[c] = 0
        /\ \A r \in RateNames : result.percent[r] = zero

-----------------------------------------------------------------------------
(* C14 *)

\* the count each guarded rate is divided by
Denominator ==
    [inmis_drop_rate          |-> "n_inmis",
     inmis_disc_rate          |-> "n_inmis",
     gdos_drop_rate           |-> "n_gdos",
     gdos_disc_rate           |-> "n_gdos",
     data_xfer_drop_rate      |-> "n_drops",
     fli_xfer_drop_rate       |-> "n_data_xfer_drops",
     sci_xfer_drop_rate       |-> "n_data_xfer_drops",
     other_xfer_drop_rate     |-> "n_data_xfer_drops",
     inmis_fli_xfer_drop_rate |-> "n_mis_xfer_drops",
     inmis_sci_xfer_drop_rate |-> "n_mis_xfer_drops",
     inmis_oth_xfer_drop_rate |-> "n_mis_xfer_drops",
     gdos_fli_xfer_drop_rate  |-> "n_gdos_xfer_drops",
     gdos_sci_xfer_drop_rate  |-> "n_gdos_xfer_drops",
     gdos_oth_xfer_drop_rate  |-> "n_gdos_xfer_drops"]

\* C14: for a dataframe with rows logcall_summary returns, and every rate
\* whose conditioning bucket is empty is 0.
C14_EmptyBucketRateIsZero ==
    (Summarized /\ Len(logcall_dataframe) > 0) =>
        /\ pc = "summary_returned"
        /\ \A r \in DOMAIN Denominator :
               result.counts[Denominator[r]] = 0 => result.percent[r] = zero

\* rows that are all intentional disconnects out of mission, one of them
\* marked as a flight transfer: no in-mission call and no drop, and
\* the rates of the empty buckets are 0
C14_Witness ==
    /\ pc = "summary_returned"
    /\ Len(logcall_dataframe) > 0
    /\ \E i \in 1..Len(logcall_dataframe) : logcall_dataframe[i].flight_xfer_drop
    /\ result.counts.n_inmis = 0
    /\ result.counts.n_drops = 0
    /\ result.counts.n_mis_xfer_drops = 0
    /\ result.counts.n_gdos_xfer_drops = 0
    /\ result.percent["inmis_drop_rate"] = zero
    /\ result.percent["data_xfer_drop_rate"] = zero
    /\ result.percent["gdos_fli_xfer_drop_rate"] = zero

-----------------------------------------------------------------------------
(* C15 *)

\* C15: for a dataframe of booleans the assertions of logcall_summary never
\* fail, and the counts returned add up: drops and disconnects to the calls,
\* in mission, out of mission and in total, and the calls in and out of
\* mission to the total.
C15_CountsAddUp ==
    Summarized =>
        /\ pc = "summary_raised" => result.raised # "AssertionError"
        /\ pc = "summary_returned" =>
               LET n == result.counts
               IN  /\ n.n_inmis_drops + n.n_inmis_discs = n.n_inmis
                   /\ n.n_gdos_drops + n.n_gdos_discs = n.n_gdos
                   /\ n.n_drops + n.n_int_disc = n.n_calls
                   /\ n.n_inmis + n.n_gdos = n.n_calls
                   /\ n.n_calls = Len(logcall_dataframe)

\* a drop in mission and a disconnect out of mission, counted
C15_Witness ==
    /\ pc = "summary_returned"
    /\ result.counts.n_inmis_drops = 1
    /\ result.counts.n_gdos_discs = 1
    /\ result.counts.n_calls = 2

-----------------------------------------------------------------------------
(* C17 *)

\* the open times of the files of the directory
OpenTimes == {f.open_time : f \in logsdir}

Latest == CHOOSE t \in OpenTimes : \A u \in OpenTimes : u <= t

Earliest == CHOOSE t \in OpenTimes : \A u \in OpenTimes : t <= u

\* C17: whatever the order in which the files of the directory are found,
\* length_days_from_logs is the latest open time less the earliest one, so
\* it is never negative, and the dataframe it is computed from is ordered by
\* open time ascending.
C17_SpanIsLatestLessEarliest ==
    pc = "logsdir_returned" =>
        /\ result.length_days_from_logs = Latest - Earliest
        /\ result.length_days_from_logs >= 0
        /\ \A i, j \in 1..Len(result.analysis_df) :
               i < j => result.analysis_df[i].open_time < result.analysis_df[j].open_time

-----------------------------------------------------------------------------
(* C18 *)

\* C18: analyze_logfiles returns one row for each file of its argument, in
\* the order of the argument, and each row is the verdict on the text and
\* the open time of its own file, whatever the other files and the order.
C18_OneRowEachInOrder ==
    pc = "analyze_returned" =>
        /\ Len(logfiles) = Cardinality(logsdir)
        /\ Len(result) = Len(logfiles)
        /\ \A i \in 1..Len(logfiles) : result[i] = dataframe_row(logfiles[i])

\* files given later first, with different verdicts
C18_Witness ==
    /\ pc = "analyze_returned"
    /\ Len(logfiles) >= 2
    /\ logfiles[1].open_time > logfiles[2].open_time
    /\ result[1].disconnect
    /\ ~result[2].disconnect
    /\ result[2].science_xfer_drop

-----------------------------------------------------------------------------
(* C19 *)

\* log_disconnect_info finds both an intentional disconnect and a drop in a
\* transfer in the file
Conflict(logfile) ==
    LET l == log_disconnect_info(logfile.filetext)
    IN  l.intentional_disconnect /\ l.drop_xfer

\* C19: when one file of the batch is one on which log_disconnect_info
\* raises, the call of analyze_logfiles raises AssertionError to its caller:
\* no dataframe is returned, not even the rows of the files before it, and
\* logsdir_iridium_analysis returns no summary.
C19_OneFailureAbortsBatch ==
    (pc # "dir" /\ \E i \in 1..Len(logfiles) : Conflict(logfiles[i])) =>
        /\ pc \in {"analyze_raised", "logsdir_raised"}
        /\ logcall_dataframe = <<>>
        /\ result = [raised |-> "AssertionError"]

\* analyze_logfiles raised on the second file, the first one being fine
C19_Witness ==
    /\ pc = "analyze_raised"
    /\ Len(logfiles) >= 2
    /\ ~Conflict(logfiles[1])
    /\ Conflict(logfiles[2])

-----------------------------------------------------------------------------
(* C21 *)

\* a rate, in percent, is at most 100
AtMost100(rate) == rate[1] <= 100 * rate[2]

\* the sum of three rates, in percent, is at most 100
SumAtMost100(a, b, c) ==
    a[1] * b[2] * c[2] + b[1] * a[2] * c[2] + c[1] * a[2] * b[2]
        <= 100 * a[2] * b[2] * c[2]

\* the rows of a drop in a transfer of which no kind is known
Indeterminate(df) ==
    {i \in 1..Len(df) :
        /\ df[i].data_transfer_drop
        /\ ~df[i].flight_xfer_drop
        /\ ~df[i].science_xfer_drop
        /\ ~df[i].other_data_xfer_drop}

\* C21: in the summary of a dataframe made of the verdicts of
\* log_disconnect_info, the drops in a transfer in mission and out of
\* mission add up to the drops in a transfer, which are at most the drops;
\* the flight, science and other drops are together at most the drops in a
\* transfer, and as many exactly when no drop in a transfer is without a
\* kind; so the transfer drop rate, and the three kind rates together, are
\* at most 100 percent.
C21_TransferDropCounts ==
    pc = "logsdir_returned" =>
        LET n     == result.summary_results.counts
            rate  == result.summary_results.percent
            kinds == n.n_fli_xfer_drops + n.n_sci_xfer_drops + n.n_other_xfer_drops
        IN  /\ n.n_mis_xfer_drops + n.n_gdos_xfer_drops = n.n_data_xfer_drops
            /\ n.n_data_xfer_drops <= n.n_drops
            /\ kinds <= n.n_data_xfer_drops
            /\ kinds = n.n_data_xfer_drops <=> Indeterminate(result.analysis_df) = {}
            /\ AtMost100(rate["data_xfer_drop_rate"])
            /\ SumAtMost100(rate["fli_xfer_drop_rate"], rate["sci_xfer_drop_rate"],
                            rate["other_xfer_drop_rate"])

\* drops in a transfer in mission and out of mission, one of them without a
\* kind, and a drop outside a transfer
C21_Witness ==
    /\ pc = "logsdir_returned"
    /\ result.summary_results.counts.n_mis_xfer_drops = 1
    /\ result.summary_results.counts.n_gdos_xfer_drops = 1
    /\ result.summary_results.counts.n_sci_xfer_drops = 1
    /\ result.summary_results.counts.n_drops = 3
    /\ Indeterminate(result.analysis_df) # {}

-----------------------------------------------------------------------------
(* C22 *)

\* the directories whose name fileregex understands, and their keys
Deployments == {dir \in DeploymentDirs : fileregex_search(dir).matched}

KeyOf(dir) ==
    deploykey_of(glider_sn(fileregex_search(dir).glider), fileregex_search(dir).deploynum)

\* the names of the csv and json files of a deployment
OutputOf(dir) ==
    LET info == deploy_info(glider_sn(fileregex_search(dir).glider),
                            fileregex_search(dir).deploynum, dataroot[dir].end)
    IN  {deploy_csv(info), deploy_json(info)}

\* the latest turn of the loop, in this run, that called
\* ooice_deployment_results called it for the deployment of dir
LatestRunning(dir) ==
    /\ Len(logger) > 0
    /\ logger[Len(logger)].msg = "Running"
    /\ logger[Len(logger)].deploykey = KeyOf(dir)

\* C22: when the logs directory of a deployment has no log files,
\* ooice_deployment_results returns without raising and without writing a
\* csv or a json file, and the run goes on with the next deployments.
C22_NoLogsNoOutputNoRaise ==
    \A dir \in Deployments :
        (LatestRunning(dir) /\ dataroot[dir].logs = {}) =>
            /\ pc # "run_raised"
            /\ OutputOf(dir) \cap DOMAIN proj_root.deployments = {}

-----------------------------------------------------------------------------
(* C23 *)

\* the keys of the list completed.json holds
Persisted(files) ==
    IF files.completed_file = None THEN <<>> ELSE files.completed_file.deployments

\* every run up to now was called with overwrite = False
NoOverwrite == locals # None /\ ~locals.overwritten

\* the deployment has no end yet
StillDeployed(dir) == dataroot[dir].end.nat

\* the step is a turn of the loop that calls ooice_deployment_results for
\* the deployment
Analyzes(dir) ==
    /\ Len(logger') = Len(logger) + 1
    /\ logger'[Len(logger')].msg = "Running"
    /\ logger'[Len(logger')].deploykey = KeyOf(dir)

\* the run analyzed the deployment
Analyzed(dir) ==
    \E i \in 1..Len(logger) :
        logger[i].msg = "Running" /\ logger[i].deploykey = KeyOf(dir)

\* the run analyzed the deployment as still deployed and its result is the
\* one stored in the summary json
StoredAnew(dir) ==
    /\ Analyzed(dir)
    /\ proj_root.json_results # None
    /\ KeyOf(dir) \in DOMAIN proj_root.json_results.results
    /\ proj_root.json_results.results[KeyOf(dir)]["end_datetime"] = "still deployed"
    /\ proj_root.json_results.results[KeyOf(dir)]["length_days"] = now

\* a step of runs without overwrite: a key enters completed.json only in
\* the turn that analyzed its deployment, with an end; a deployment whose
\* key is in completed.json is not analyzed; a deployment still deployed
\* has no key in completed.json; and when a run is over in one of the ways
\* given, it has analyzed every deployment still deployed and stored that
\* result
CompletedStep(over) ==
    NoOverwrite' =>
        \A dir \in Deployments :
            /\ (in(KeyOf(dir), Persisted(proj_root')) /\ ~in(KeyOf(dir), Persisted(proj_root)))
                   => /\ Analyzes(dir)
                      /\ ~StillDeployed(dir)
                      /\ result'["end_datetime"] # "still deployed"
            /\ in(KeyOf(dir), Persisted(proj_root)) => ~Analyzes(dir)
            /\ StillDeployed(dir)' => ~in(KeyOf(dir), Persisted(proj_root'))
            /\ (pc' \in over /\ StillDeployed(dir)') => StoredAnew(dir)'

=============================================================================
